---------------------------- MODULE Spec2Model ----------------------------
(***************************************************************************)
(* Model of smtp_lib.parse.transcript.parse_transcript.                    *)
(*                                                                         *)
(* A Python str is a sequence of one-character strings.  An optional value *)
(* (Python "x | None") is a sequence of length 0 (None) or 1 (Some(x)), so *)
(* that None and the empty string are different values.                    *)
(***************************************************************************)
EXTENDS Integers, Sequences, FiniteSets, TLC

None == <<>>
Some(v) == <<v>>
Get(o) == o[1]

(***************************************************************************)
(* Bounds of the model.                                                    *)
(***************************************************************************)
MaxLines == 3

(***************************************************************************)
(* Character classes of Python's re module, for str patterns.              *)
(***************************************************************************)
NL == "\n"
Digits == {"0", "1", "2", "3", "4", "5", "6", "7", "8", "9"}
Whitespace == {" ", "\t", NL}

IsDigit(c) == c \in Digits
IsSpace(c) == c \in Whitespace

\* s[from..]; the empty string when from is past the end
Tail_(s, from) == SubSeq(s, from, Len(s))

\* TRUE iff the literal lit occurs in s at position pos
HasAt(s, pos, lit) ==
    /\ pos + Len(lit) - 1 <= Len(s)
    /\ SubSeq(s, pos, pos + Len(lit) - 1) = lit

\* TRUE iff every position from..to of s exists and holds a digit
AllDigits(s, from, to) ==
    /\ to <= Len(s)
    /\ \A p \in from..to : IsDigit(s[p])

\* length of the maximal run of digits of s that starts at pos
DigitRun(s, pos) ==
    LET ends == {e \in (pos - 1)..Len(s) : \A p \in pos..e : IsDigit(s[p])}
    IN  (CHOOSE e \in ends : \A f \in ends : f <= e) - pos + 1

(***************************************************************************)
(* str.upper, on the letters the transcripts use.                          *)
(***************************************************************************)
LowerLetters == <<"a", "b", "c", "d", "e", "f", "g", "h", "i", "j", "k", "l", "m",
                  "n", "o", "p", "q", "r", "s", "t", "u", "v", "w", "x", "y", "z">>
UpperLetters == <<"A", "B", "C", "D", "E", "F", "G", "H", "I", "J", "K", "L", "M",
                  "N", "O", "P", "Q", "R", "S", "T", "U", "V", "W", "X", "Y", "Z">>

UpperChar(c) ==
    IF \E n \in 1..26 : LowerLetters[n] = c
    THEN UpperLetters[CHOOSE n \in 1..26 : LowerLetters[n] = c]
    ELSE c

upper(s) == [p \in 1..Len(s) |-> UpperChar(s[p])]

(***************************************************************************)
(* str.splitlines: the line boundaries are the NL characters; a trailing   *)
(* NL does not open a further, empty, line.                                *)
(***************************************************************************)
RECURSIVE splitlines_AsSplit(_)
splitlines_AsSplit(s) ==
    LET nls == {p \in 1..Len(s) : s[p] = NL}
    IN  IF nls = {} THEN <<s>>
        ELSE LET p == CHOOSE q \in nls : \A r \in nls : q <= r
             IN  <<SubSeq(s, 1, p - 1)>> \o splitlines_AsSplit(Tail_(s, p + 1))

RECURSIVE splitlines(_)
splitlines(s) ==
    IF s = <<>> THEN <<>>
    ELSE LET nls == {p \in 1..Len(s) : s[p] = NL}
         IN  IF nls = {} THEN <<s>>
             ELSE LET p == CHOOSE q \in nls : \A r \in nls : q <= r
                  IN  <<SubSeq(s, 1, p - 1)>> \o splitlines(Tail_(s, p + 1))

(***************************************************************************)
(* _SMTP_RESPONSE_PATTERN                                                  *)
(*  ^(status_code [0-9]{3})(\s(enhanced [0-9]\.[0-9]\.[0-9]))?\s(text .+)$ *)
(* The optional group is tried first; when the rest of the pattern fails   *)
(* after it, the matcher backtracks and skips the group.                   *)
(***************************************************************************)
ResponseWithEnhanced(line) ==
    /\ Len(line) >= 11
    /\ AllDigits(line, 1, 3)
    /\ IsSpace(line[4])
    /\ IsDigit(line[5]) /\ line[6] = "." /\ IsDigit(line[7])
    /\ line[8] = "." /\ IsDigit(line[9])
    /\ IsSpace(line[10])
    /\ \A p \in 11..Len(line) : line[p] # NL

ResponseWithoutEnhanced(line) ==
    /\ Len(line) >= 5
    /\ AllDigits(line, 1, 3)
    /\ IsSpace(line[4])
    /\ \A p \in 5..Len(line) : line[p] # NL

\* None, or Some of the group dict of the match
SMTP_RESPONSE_PATTERN(line) ==
    IF ResponseWithEnhanced(line)
    THEN Some([status_code |-> SubSeq(line, 1, 3),
               enhanced_status_code |-> Some(SubSeq(line, 5, 9)),
               text |-> Tail_(line, 11)])
    ELSE IF ResponseWithoutEnhanced(line)
    THEN Some([status_code |-> SubSeq(line, 1, 3),
               enhanced_status_code |-> None,
               text |-> Tail_(line, 5)])
    ELSE None

(***************************************************************************)
(* _SMTP_MULTILINE_RESPONSE_PATTERN                                        *)
(*  ^(status_code [0-9]{3})                                                *)
(*   (-(enhanced [0-9]\.[0-9]{1,3}\.[0-9]{1,3}))?-(text .+)$               *)
(* Each {1,3} run is followed by a non-digit, so it matches only the       *)
(* maximal run of digits, and only when that run has 1 to 3 digits.        *)
(***************************************************************************)
MultilineTextStart(line) ==
    LET r1 == DigitRun(line, 7)
        r2 == DigitRun(line, 8 + r1)
    IN  IF /\ Len(line) >= 10
           /\ line[4] = "-"
           /\ IsDigit(line[5]) /\ line[6] = "."
           /\ r1 \in 1..3
           /\ HasAt(line, 7 + r1, <<".">>)
           /\ r2 \in 1..3
           /\ HasAt(line, 8 + r1 + r2, <<"-">>)
           /\ Len(line) >= 9 + r1 + r2
        THEN 9 + r1 + r2
        ELSE 5

SMTP_MULTILINE_RESPONSE_PATTERN(line) ==
    IF /\ Len(line) >= 5
       /\ AllDigits(line, 1, 3)
       /\ line[4] = "-"
       /\ \A p \in 5..Len(line) : line[p] # NL
    THEN Some([status_code |-> SubSeq(line, 1, 3),
               enhanced_status_code |->
                   IF MultilineTextStart(line) = 5 THEN None
                   ELSE Some(SubSeq(line, 5, MultilineTextStart(line) - 2)),
               text |-> Tail_(line, MultilineTextStart(line))])
    ELSE None

(***************************************************************************)
(* _SMTP_COMMAND_PATTERN   ^(command [^ ]+)( (arguments .+))?$             *)
(***************************************************************************)
SMTP_COMMAND_PATTERN(line) ==
    LET sps == {p \in 1..Len(line) : line[p] = " "}
        sp == IF sps = {} THEN Len(line) + 1
              ELSE CHOOSE q \in sps : \A r \in sps : q <= r
    IN  IF sp = 1 THEN None
        ELSE IF sp = Len(line) + 1
        THEN Some([command |-> line, arguments |-> None])
        ELSE IF sp < Len(line) /\ \A p \in (sp + 1)..Len(line) : line[p] # NL
        THEN Some([command |-> SubSeq(line, 1, sp - 1),
                   arguments |-> Some(Tail_(line, sp + 1))])
        ELSE None

(***************************************************************************)
(* _SMTP_QUEUED_AS_PATTERN                                                 *)
(*  ^250( 2\.0\.0)? Ok: ([0-9]+ bytes )?queued as (queue_id .+)$           *)
(***************************************************************************)
Lit250 == <<"2", "5", "0">>
LitEnh200 == <<" ", "2", ".", "0", ".", "0">>
LitOk == <<" ", "O", "k", ":", " ">>
LitBytes == <<" ", "b", "y", "t", "e", "s", " ">>
LitQueuedAs == <<"q", "u", "e", "u", "e", "d", " ", "a", "s", " ">>

SMTP_QUEUED_AS_PATTERN(line) ==
    LET p1 == IF HasAt(line, 4, LitEnh200) THEN 4 + Len(LitEnh200) ELSE 4
        p2 == p1 + Len(LitOk)
        run == DigitRun(line, p2)
        p3 == IF run >= 1 /\ HasAt(line, p2 + run, LitBytes)
              THEN p2 + run + Len(LitBytes) ELSE p2
        p4 == p3 + Len(LitQueuedAs)
    IN  IF /\ HasAt(line, 1, Lit250)
           /\ HasAt(line, p1, LitOk)
           /\ HasAt(line, p3, LitQueuedAs)
           /\ p4 <= Len(line)
           /\ \A p \in p4..Len(line) : line[p] # NL
        THEN Some([queue_id |-> Tail_(line, p4)])
        ELSE None

(***************************************************************************)
(* _ENHANCED_STATUS_CODE_PATTERN                                           *)
(*  ^(class [0-9]{1,3})\.(subject [0-9]{1,3})\.(detail [0-9]{1,3})$        *)
(***************************************************************************)
ENHANCED_STATUS_CODE_PATTERN_GroupsSwapped(s) ==
    LET r1 == DigitRun(s, 1)
        r2 == DigitRun(s, r1 + 2)
        r3 == DigitRun(s, r1 + r2 + 3)
    IN  IF /\ r1 \in 1..3 /\ HasAt(s, r1 + 1, <<".">>)
           /\ r2 \in 1..3 /\ HasAt(s, r1 + r2 + 2, <<".">>)
           /\ r3 \in 1..3
           /\ Len(s) = r1 + r2 + r3 + 2
        THEN Some([class |-> SubSeq(s, 1, r1),
                   subject |-> SubSeq(s, r1 + r2 + 3, r1 + r2 + r3 + 2),
                   detail |-> SubSeq(s, r1 + 2, r1 + r2 + 1)])
        ELSE None

ENHANCED_STATUS_CODE_PATTERN(s) ==
    LET r1 == DigitRun(s, 1)
        r2 == DigitRun(s, r1 + 2)
        r3 == DigitRun(s, r1 + r2 + 3)
    IN  IF /\ r1 \in 1..3 /\ HasAt(s, r1 + 1, <<".">>)
           /\ r2 \in 1..3 /\ HasAt(s, r1 + r2 + 2, <<".">>)
           /\ r3 \in 1..3
           /\ Len(s) = r1 + r2 + r3 + 2
        THEN Some([class |-> SubSeq(s, 1, r1),
                   subject |-> SubSeq(s, r1 + 2, r1 + r2 + 1),
                   detail |-> SubSeq(s, r1 + r2 + 3, r1 + r2 + r3 + 2)])
        ELSE None

(***************************************************************************)
(* smtp_lib.codes: the lookup tables, as dict.get (None for a missing      *)
(* key).  A text is written as a one-symbol string.                        *)
(***************************************************************************)
CLASS_TO_TEXT_get(class) ==
    CASE class = <<"2">> -> Some(<<"Success">>)
      [] class = <<"4">> -> Some(<<"Persistent Transient Failure">>)
      [] class = <<"5">> -> Some(<<"Permanent Failure">>)
      [] OTHER -> None

SUBJECT_TO_TEXT_get(subject) ==
    CASE subject = <<"0">> -> Some(<<"Other or Undefined Status">>)
      [] subject = <<"1">> -> Some(<<"Addressing Status">>)
      [] subject = <<"2">> -> Some(<<"Mailbox Status">>)
      [] OTHER -> None

SUBJECT_DETAIL_TO_TEXT_get(subject, detail) ==
    CASE subject = <<"0">> /\ detail = <<"0">> -> Some(<<"Other undefined Status">>)
      [] subject = <<"1">> /\ detail = <<"1">> -> Some(<<"Bad destination mailbox address">>)
      [] OTHER -> None

(***************************************************************************)
(* The transcripts: up to MaxLines lines of Pool joined by NL.             *)
(***************************************************************************)
L_Ok == <<"2", "5", "0", " ", "o", "k">>
L_Err511 == <<"5", "5", "0", " ", "5", ".", "1", ".", "1", " ", "n", "o">>
L_ErrNoText == <<"5", "5", "0", " ", "5", ".", "1", ".", "1">>
L_Err451 == <<"4", "5", "1", " ", "2", ".", "1", ".", "5", " ", "t">>
L_QueuedA == Lit250 \o LitEnh200 \o LitOk \o LitQueuedAs \o <<"A">>
L_QueuedB == Lit250 \o LitOk \o <<"1", "2">> \o LitBytes \o LitQueuedAs \o <<"B">>
L_Cont == <<"2", "5", "0", "-", "a">>
L_ContEnh == <<"5", "5", "0", "-", "5", ".", "1", ".", "1", "0", "-", "b">>
L_Quit == <<"Q", "U", "I", "T">>
L_Rcpt == <<"r", "c", "p", "t", " ", "a">>
L_Empty == <<>>
L_Trailing == <<"Q", " ">>

Pool == {L_Ok, L_Err511, L_ErrNoText, L_Err451, L_QueuedA, L_QueuedB,
         L_Cont, L_ContEnh, L_Quit, L_Rcpt, L_Empty, L_Trailing}

RECURSIVE join(_, _)
join(sep, strs) ==
    IF strs = <<>> THEN <<>>
    ELSE IF Len(strs) = 1 THEN strs[1]
    ELSE strs[1] \o sep \o join(sep, Tail(strs))

Transcripts ==
    {join(<<NL>>, ls) : ls \in UNION {[1..n -> Pool] : n \in 0..MaxLines}}

(***************************************************************************)
(* Python truthiness of an optional str: neither None nor empty.           *)
(***************************************************************************)
Truthy(o) == o # None /\ Get(o) # <<>>

\* Python's "a or b" on optional strs
Or_(a, b) == IF Truthy(a) THEN a ELSE b

(***************************************************************************)
(* The records of ecs_py and the ExtraExchangeData dataclass.              *)
(***************************************************************************)
ExtraExchangeData ==
    [queue_id |-> None, error_message |-> None,
     error_code |-> None, error_type |-> None]

SMTPRequest(command, arguments_string) ==
    [command |-> command, arguments_string |-> arguments_string]

\* the response holds the very list that line 88 would empty with clear()
SMTPResponse_ListEmptied(status_code, enhanced_status_code, lines) ==
    [status_code |-> status_code,
     enhanced_status_code |-> enhanced_status_code,
     lines |-> <<>>]

SMTPResponse(status_code, enhanced_status_code, lines) ==
    [status_code |-> status_code,
     enhanced_status_code |-> enhanced_status_code,
     lines |-> lines]

SMTPExchange(request, response) ==
    [request |-> request, response |-> Some(response)]

SMTPEnhancedStatusCode(original) ==
    [original |-> original,
     class_ |-> None, class_text |-> None,
     subject |-> None, subject_text |-> None,
     detail |-> None, detail_text |-> None]

\* lines 57-74: the enhanced status code of a final response line
EnhancedStatusCodeECS(group_dict) ==
    IF Truthy(group_dict.enhanced_status_code)
    THEN LET original == Get(group_dict.enhanced_status_code)
             m == ENHANCED_STATUS_CODE_PATTERN(original)
         IN  IF m # None
             THEN Some([original |-> original,
                        class_ |-> Some(Get(m).class),
                        class_text |-> CLASS_TO_TEXT_get(Get(m).class),
                        subject |-> Some(Get(m).subject),
                        subject_text |-> SUBJECT_TO_TEXT_get(Get(m).subject),
                        detail |-> Some(Get(m).detail),
                        detail_text |->
                            SUBJECT_DETAIL_TO_TEXT_get(Get(m).subject, Get(m).detail)])
             ELSE Some(SMTPEnhancedStatusCode(original))
    ELSE None

ErrorType == <<"No message was queued.">>
MalformedPrefix == <<"Malformed SMTP line?: ">>

(***************************************************************************)
(* The state of one call of parse_transcript.                              *)
(***************************************************************************)
VARIABLES
    transcript_data,        \* the argument
    pc,                     \* position of the call
    transcript_data_lines,
    line_idx,               \* position of the for loop of line 51
    smtp_exchange_list,
    smtp_request,
    response_lines,
    extra_exchange_data,
    scan_idx,               \* position of the reversed loop of line 106
    result,                 \* None, or Some of the returned pair
    raised,                 \* None, or Some of the message of the ValueError
    \* the callers of parse_transcript
    calls,                  \* the transcripts of the calls made so far
    reference,              \* None, or Some of the outcome of the first call
    suspended               \* None, or Some of a call that is not running

callerVars == <<calls, reference, suspended>>

vars == <<transcript_data, pc, transcript_data_lines, line_idx,
          smtp_exchange_list, smtp_request, response_lines,
          extra_exchange_data, scan_idx, result, raised, callerVars>>

Init ==
    /\ transcript_data \in Transcripts
    /\ pc = "start"
    /\ transcript_data_lines = <<>>
    /\ line_idx = 0
    /\ smtp_exchange_list = <<>>
    /\ smtp_request = None
    /\ response_lines = <<>>
    /\ extra_exchange_data = ExtraExchangeData
    /\ scan_idx = 0
    /\ result = None
    /\ raised = None
    /\ calls = <<transcript_data>>
    /\ reference = None
    /\ suspended = None

\* lines 41-49: the objects of the call are built here; the names keep
\* nothing of what an earlier call bound to them
Start_SharedExtraData ==
    /\ pc = "start"
    /\ transcript_data_lines' = splitlines(transcript_data)
    /\ extra_exchange_data' = extra_exchange_data
    /\ IF transcript_data_lines' = <<>>
       THEN /\ result' = Some(<<(<<>>), extra_exchange_data'>>)
            /\ pc' = "done"
            /\ UNCHANGED <<line_idx, smtp_exchange_list, smtp_request,
                           response_lines>>
       ELSE /\ smtp_exchange_list' = <<>>
            /\ smtp_request' = None
            /\ response_lines' = <<>>
            /\ result' = result
            /\ pc' = "for"
            /\ line_idx' = 1
    /\ UNCHANGED <<callerVars, transcript_data, scan_idx, raised>>

Start_SharedLinesBuffer ==
    /\ pc = "start"
    /\ transcript_data_lines' = splitlines(transcript_data)
    /\ extra_exchange_data' = ExtraExchangeData
    /\ IF transcript_data_lines' = <<>>
       THEN /\ result' = Some(<<(<<>>), extra_exchange_data'>>)
            /\ pc' = "done"
            /\ UNCHANGED <<line_idx, smtp_exchange_list, smtp_request,
                           response_lines>>
       ELSE /\ smtp_exchange_list' = <<>>
            /\ smtp_request' = None
            /\ response_lines' = response_lines
            /\ result' = result
            /\ pc' = "for"
            /\ line_idx' = 1
    /\ UNCHANGED <<callerVars, transcript_data, scan_idx, raised>>

Start ==
    /\ pc = "start"
    /\ transcript_data_lines' = splitlines(transcript_data)
    /\ extra_exchange_data' = ExtraExchangeData
    /\ IF transcript_data_lines' = <<>>
       THEN /\ result' = Some(<<(<<>>), extra_exchange_data'>>)
            /\ pc' = "done"
            /\ UNCHANGED <<line_idx, smtp_exchange_list, smtp_request,
                           response_lines>>
       ELSE /\ smtp_exchange_list' = <<>>
            /\ smtp_request' = None
            /\ response_lines' = <<>>
            /\ result' = result
            /\ pc' = "for"
            /\ line_idx' = 1
    /\ UNCHANGED <<callerVars, transcript_data, scan_idx, raised>>

InFor == pc = "for" /\ line_idx <= Len(transcript_data_lines)
line == transcript_data_lines[line_idx]

\* lines 90-91: the queue id after a final response line
QueueIdAfter_FirstWins(queue_id, l) ==
    IF queue_id = None /\ SMTP_QUEUED_AS_PATTERN(l) # None
    THEN Some(Get(SMTP_QUEUED_AS_PATTERN(l)).queue_id)
    ELSE queue_id

QueueIdAfter(queue_id, l) ==
    IF SMTP_QUEUED_AS_PATTERN(l) # None
    THEN Some(Get(SMTP_QUEUED_AS_PATTERN(l)).queue_id)
    ELSE queue_id

\* lines 76-85: smtp_exchange_list.append
AppendExchange_DropsBanner(exchange_list, exchange) ==
    IF exchange.request = None THEN exchange_list
    ELSE Append(exchange_list, exchange)

AppendExchange_Prepends(exchange_list, exchange) ==
    <<exchange>> \o exchange_list

AppendExchange(exchange_list, exchange) == Append(exchange_list, exchange)

\* line 87
ConsumeRequest_Keeps == smtp_request' = smtp_request

ConsumeRequest == smtp_request' = None

\* line 88: response_lines is bound to a new list, the list that the
\* exchange holds is not touched
ClearResponseLines_Forgotten ==
    response_lines' =
        Append(response_lines, Get(SMTP_RESPONSE_PATTERN(line)).text)

ClearResponseLines == response_lines' = <<>>

\* lines 52-91
FinalResponseLine_CodesOfFirstLine ==
    /\ InFor
    /\ SMTP_RESPONSE_PATTERN(line) # None
    /\ LET run == {k \in 1..(line_idx - 1) :
                      /\ SMTP_MULTILINE_RESPONSE_PATTERN(transcript_data_lines[k]) # None
                      /\ \A m \in k..(line_idx - 1) :
                             SMTP_RESPONSE_PATTERN(transcript_data_lines[m]) = None}
           first == CHOOSE k \in run : \A m \in run : k <= m
           final_dict == Get(SMTP_RESPONSE_PATTERN(line))
           group_dict ==
               IF run = {} THEN final_dict
               ELSE Get(SMTP_MULTILINE_RESPONSE_PATTERN(transcript_data_lines[first]))
       IN  /\ smtp_exchange_list' =
                AppendExchange(
                    smtp_exchange_list,
                    SMTPExchange(smtp_request,
                                 SMTPResponse(group_dict.status_code,
                                              EnhancedStatusCodeECS(group_dict),
                                              Append(response_lines, final_dict.text))))
           /\ ConsumeRequest
           /\ ClearResponseLines
           /\ extra_exchange_data' =
                [extra_exchange_data EXCEPT
                    !.queue_id = QueueIdAfter(extra_exchange_data.queue_id, line)]
    /\ line_idx' = line_idx + 1
    /\ UNCHANGED <<callerVars, transcript_data, pc, transcript_data_lines, scan_idx,
                   result, raised>>

FinalResponseLine ==
    /\ InFor
    /\ SMTP_RESPONSE_PATTERN(line) # None
    /\ LET group_dict == Get(SMTP_RESPONSE_PATTERN(line))
       IN  /\ smtp_exchange_list' =
                AppendExchange(
                    smtp_exchange_list,
                    SMTPExchange(smtp_request,
                                 SMTPResponse(group_dict.status_code,
                                              EnhancedStatusCodeECS(group_dict),
                                              Append(response_lines, group_dict.text))))
           /\ ConsumeRequest
           /\ ClearResponseLines
           /\ extra_exchange_data' =
                [extra_exchange_data EXCEPT
                    !.queue_id = QueueIdAfter(extra_exchange_data.queue_id, line)]
    /\ line_idx' = line_idx + 1
    /\ UNCHANGED <<callerVars, transcript_data, pc, transcript_data_lines, scan_idx,
                   result, raised>>

\* lines 93-94
ContinuationLine_ClosesExchange ==
    /\ InFor
    /\ SMTP_RESPONSE_PATTERN(line) = None
    /\ SMTP_MULTILINE_RESPONSE_PATTERN(line) # None
    /\ LET group_dict == Get(SMTP_MULTILINE_RESPONSE_PATTERN(line))
       IN  smtp_exchange_list' =
               Append(smtp_exchange_list,
                      SMTPExchange(smtp_request,
                                   SMTPResponse(group_dict.status_code, None,
                                                Append(response_lines, group_dict.text))))
    /\ response_lines' = <<>>
    /\ line_idx' = line_idx + 1
    /\ UNCHANGED <<callerVars, transcript_data, pc, transcript_data_lines,
                   smtp_request, extra_exchange_data,
                   scan_idx, result, raised>>

ContinuationLine ==
    /\ InFor
    /\ SMTP_RESPONSE_PATTERN(line) = None
    /\ SMTP_MULTILINE_RESPONSE_PATTERN(line) # None
    /\ response_lines' =
           Append(response_lines, Get(SMTP_MULTILINE_RESPONSE_PATTERN(line)).text)
    /\ line_idx' = line_idx + 1
    /\ UNCHANGED <<callerVars, transcript_data, pc, transcript_data_lines,
                   smtp_exchange_list, smtp_request, extra_exchange_data,
                   scan_idx, result, raised>>

\* lines 95-100
CommandLine_KeepsPending ==
    /\ InFor
    /\ SMTP_RESPONSE_PATTERN(line) = None
    /\ SMTP_MULTILINE_RESPONSE_PATTERN(line) = None
    /\ SMTP_COMMAND_PATTERN(line) # None
    /\ LET group_dict == Get(SMTP_COMMAND_PATTERN(line))
       IN  smtp_request' =
               IF smtp_request # None THEN smtp_request
               ELSE Some(SMTPRequest(upper(group_dict.command), group_dict.arguments))
    /\ line_idx' = line_idx + 1
    /\ UNCHANGED <<callerVars, transcript_data, pc, transcript_data_lines,
                   smtp_exchange_list, response_lines, extra_exchange_data,
                   scan_idx, result, raised>>

CommandLine_ClearsBuffer ==
    /\ InFor
    /\ SMTP_RESPONSE_PATTERN(line) = None
    /\ SMTP_MULTILINE_RESPONSE_PATTERN(line) = None
    /\ SMTP_COMMAND_PATTERN(line) # None
    /\ LET group_dict == Get(SMTP_COMMAND_PATTERN(line))
       IN  smtp_request' =
               Some(SMTPRequest(upper(group_dict.command), group_dict.arguments))
    /\ response_lines' = <<>>
    /\ line_idx' = line_idx + 1
    /\ UNCHANGED <<callerVars, transcript_data, pc, transcript_data_lines,
                   smtp_exchange_list, extra_exchange_data,
                   scan_idx, result, raised>>

CommandLine ==
    /\ InFor
    /\ SMTP_RESPONSE_PATTERN(line) = None
    /\ SMTP_MULTILINE_RESPONSE_PATTERN(line) = None
    /\ SMTP_COMMAND_PATTERN(line) # None
    /\ LET group_dict == Get(SMTP_COMMAND_PATTERN(line))
       IN  smtp_request' =
               Some(SMTPRequest(upper(group_dict.command), group_dict.arguments))
    /\ line_idx' = line_idx + 1
    /\ UNCHANGED <<callerVars, transcript_data, pc, transcript_data_lines,
                   smtp_exchange_list, response_lines, extra_exchange_data,
                   scan_idx, result, raised>>

\* lines 101-103
MalformedLine_Skips ==
    /\ InFor
    /\ SMTP_RESPONSE_PATTERN(line) = None
    /\ SMTP_MULTILINE_RESPONSE_PATTERN(line) = None
    /\ SMTP_COMMAND_PATTERN(line) = None
    /\ line_idx' = line_idx + 1
    /\ UNCHANGED <<callerVars, transcript_data, pc, transcript_data_lines,
                   smtp_exchange_list, smtp_request, response_lines,
                   extra_exchange_data, scan_idx, result, raised>>

MalformedLine ==
    /\ InFor
    /\ SMTP_RESPONSE_PATTERN(line) = None
    /\ SMTP_MULTILINE_RESPONSE_PATTERN(line) = None
    /\ SMTP_COMMAND_PATTERN(line) = None
    /\ raised' = Some(MalformedPrefix \o line)
    /\ pc' = "raised"
    /\ UNCHANGED <<callerVars, transcript_data, transcript_data_lines, line_idx,
                   smtp_exchange_list, smtp_request, response_lines,
                   extra_exchange_data, scan_idx, result>>

\* line 105, at the end of the for loop of line 51
EndFor_AlwaysScans ==
    /\ pc = "for"
    /\ line_idx > Len(transcript_data_lines)
    /\ pc' = "scan" /\ scan_idx' = Len(smtp_exchange_list)
    /\ UNCHANGED <<callerVars, transcript_data, transcript_data_lines, line_idx,
                   smtp_exchange_list, smtp_request, response_lines,
                   extra_exchange_data, result, raised>>

EndFor ==
    /\ pc = "for"
    /\ line_idx > Len(transcript_data_lines)
    /\ IF ~Truthy(extra_exchange_data.queue_id)
       THEN pc' = "scan" /\ scan_idx' = Len(smtp_exchange_list)
       ELSE pc' = "return" /\ scan_idx' = scan_idx
    /\ UNCHANGED <<callerVars, transcript_data, transcript_data_lines, line_idx,
                   smtp_exchange_list, smtp_request, response_lines,
                   extra_exchange_data, result, raised>>

InScan == pc = "scan" /\ scan_idx >= 1
\* line 106: reversed()
smtp_exchange_NotReversed ==
    smtp_exchange_list[Len(smtp_exchange_list) - scan_idx + 1]

smtp_exchange == smtp_exchange_list[scan_idx]

\* line 108
ResponseText_LastLineOnly(response) ==
    IF response.lines # <<>> THEN Some(response.lines[Len(response.lines)])
    ELSE None

ResponseText_Absent(response) ==
    IF response.lines = <<>> THEN Some(join(<<" ">>, response.lines)) ELSE None

ResponseText(response) ==
    IF response.lines # <<>> THEN Some(join(<<" ">>, response.lines)) ELSE None

\* lines 110-111
EnhancedClassIsError(response) ==
    /\ response.enhanced_status_code # None
    /\ Truthy(Get(response.enhanced_status_code).class_)
    /\ Get(Get(response.enhanced_status_code).class_) \in {<<"4">>, <<"5">>}

\* line 117
StatusCodeIsError(response) ==
    /\ response.status_code # <<>>
    /\ response.status_code[1] \in {"4", "5"}

\* lines 110-115
ScanEnhancedError ==
    /\ InScan
    /\ smtp_exchange.response # None
    /\ LET response == Get(smtp_exchange.response)
       IN  /\ EnhancedClassIsError(response)
           /\ extra_exchange_data' =
                [extra_exchange_data EXCEPT
                    !.error_code = Some(Get(response.enhanced_status_code).original),
                    !.error_message =
                        Or_(ResponseText(response),
                            Get(response.enhanced_status_code).detail_text),
                    !.error_type = Some(ErrorType)]
    /\ pc' = "return"
    /\ UNCHANGED <<callerVars, transcript_data, transcript_data_lines, line_idx,
                   smtp_exchange_list, smtp_request, response_lines,
                   scan_idx, result, raised>>

\* lines 117-121
ScanStatusError ==
    /\ InScan
    /\ smtp_exchange.response # None
    /\ LET response == Get(smtp_exchange.response)
       IN  /\ ~EnhancedClassIsError(response)
           /\ StatusCodeIsError(response)
           /\ extra_exchange_data' =
                [extra_exchange_data EXCEPT
                    !.error_code = Some(response.status_code),
                    !.error_message = ResponseText(response),
                    !.error_type = Some(ErrorType)]
    /\ pc' = "return"
    /\ UNCHANGED <<callerVars, transcript_data, transcript_data_lines, line_idx,
                   smtp_exchange_list, smtp_request, response_lines,
                   scan_idx, result, raised>>

\* lines 106-121: neither break is taken, the loop goes on to the exchange before
ScanNext_Halts ==
    /\ InScan
    /\ \/ smtp_exchange.response = None
       \/ /\ ~EnhancedClassIsError(Get(smtp_exchange.response))
          /\ ~StatusCodeIsError(Get(smtp_exchange.response))
    /\ pc' = "return"
    /\ UNCHANGED <<callerVars, transcript_data, transcript_data_lines, line_idx,
                   smtp_exchange_list, smtp_request, response_lines,
                   extra_exchange_data, scan_idx, result, raised>>

ScanNext ==
    /\ InScan
    /\ \/ smtp_exchange.response = None
       \/ /\ ~EnhancedClassIsError(Get(smtp_exchange.response))
          /\ ~StatusCodeIsError(Get(smtp_exchange.response))
    /\ scan_idx' = scan_idx - 1
    /\ UNCHANGED <<callerVars, transcript_data, pc, transcript_data_lines, line_idx,
                   smtp_exchange_list, smtp_request, response_lines,
                   extra_exchange_data, result, raised>>

\* line 106: the reversed list is exhausted
ScanExhausted ==
    /\ pc = "scan"
    /\ scan_idx = 0
    /\ pc' = "return"
    /\ UNCHANGED <<callerVars, transcript_data, transcript_data_lines, line_idx,
                   smtp_exchange_list, smtp_request, response_lines,
                   extra_exchange_data, scan_idx, result, raised>>

\* line 123
Return ==
    /\ pc = "return"
    /\ result' = Some(<<smtp_exchange_list, extra_exchange_data>>)
    /\ pc' = "done"
    /\ UNCHANGED <<callerVars, transcript_data, transcript_data_lines, line_idx,
                   smtp_exchange_list, smtp_request, response_lines,
                   extra_exchange_data, scan_idx, raised>>

Next ==
    \/ Start
    \/ FinalResponseLine
    \/ ContinuationLine
    \/ CommandLine
    \/ MalformedLine
    \/ EndFor
    \/ ScanEnhancedError
    \/ ScanStatusError
    \/ ScanNext
    \/ ScanExhausted
    \/ Return

Spec == Init /\ [][Next]_vars

(***************************************************************************)
(* Several calls.  A caller calls parse_transcript again when a call has   *)
(* returned or raised (Call), or starts a call while another one is in     *)
(* progress (Spawn); of two calls in progress one runs and the other is    *)
(* suspended with its own local names, and the scheduler may switch        *)
(* between them before any step (Switch).  The objects that an earlier     *)
(* call built are still alive when the next call begins, and the new call  *)
(* builds its own at lines 41 and 47-49.                                   *)
(***************************************************************************)
MaxCalls == 3

T_Queued == L_QueuedA
T_Error == join(<<NL>>, <<L_Rcpt, L_ContEnh, L_Err511>>)
T_Pending == join(<<NL>>, <<L_Quit, L_Cont>>)
T_Raises == join(<<NL>>, <<L_Ok, L_Trailing>>)
T_LateOk == join(<<NL>>, <<L_Err451, L_Ok>>)
T_Empty == <<>>

CallTranscripts == {T_Queued, T_Error, T_Pending, T_Raises, T_LateOk, T_Empty}

Finished == pc \in {"done", "raised"}
Outcome == <<result, raised>>

\* the local names of the running call
Context ==
    [transcript_data |-> transcript_data,
     pc |-> pc,
     transcript_data_lines |-> transcript_data_lines,
     line_idx |-> line_idx,
     smtp_exchange_list |-> smtp_exchange_list,
     smtp_request |-> smtp_request,
     response_lines |-> response_lines,
     extra_exchange_data |-> extra_exchange_data,
     scan_idx |-> scan_idx,
     result |-> result,
     raised |-> raised]

\* line 39: a new frame, entered with the argument t
Enter(t) ==
    /\ transcript_data' = t
    /\ pc' = "start"
    /\ line_idx' = 0
    /\ scan_idx' = 0
    /\ result' = None
    /\ raised' = None
    /\ calls' = Append(calls, t)
    /\ UNCHANGED <<transcript_data_lines, smtp_exchange_list, smtp_request,
                   response_lines, extra_exchange_data>>

Call ==
    /\ Finished
    /\ Len(calls) < MaxCalls
    /\ reference' = IF reference = None THEN Some(Outcome) ELSE reference
    /\ \E t \in CallTranscripts : Enter(t)
    /\ UNCHANGED suspended

Spawn ==
    /\ ~Finished
    /\ reference # None
    /\ suspended = None
    /\ Len(calls) < MaxCalls
    /\ suspended' = Some(Context)
    /\ \E t \in CallTranscripts : Enter(t)
    /\ UNCHANGED reference

Switch ==
    /\ suspended # None
    /\ suspended' = Some(Context)
    /\ transcript_data' = Get(suspended).transcript_data
    /\ pc' = Get(suspended).pc
    /\ transcript_data_lines' = Get(suspended).transcript_data_lines
    /\ line_idx' = Get(suspended).line_idx
    /\ smtp_exchange_list' = Get(suspended).smtp_exchange_list
    /\ smtp_request' = Get(suspended).smtp_request
    /\ response_lines' = Get(suspended).response_lines
    /\ extra_exchange_data' = Get(suspended).extra_exchange_data
    /\ scan_idx' = Get(suspended).scan_idx
    /\ result' = Get(suspended).result
    /\ raised' = Get(suspended).raised
    /\ UNCHANGED <<calls, reference>>

CallsInit == Init /\ transcript_data \in CallTranscripts

SeqNext == Next \/ Call
SeqSpec == CallsInit /\ [][SeqNext]_vars

ConcNext == Next \/ Call \/ Spawn \/ Switch
ConcSpec == CallsInit /\ [][ConcNext]_vars

(***************************************************************************)
(* The vocabulary of the properties: the lines of the transcript, their    *)
(* shapes in the precedence of lines 52, 93 and 95, and the results.       *)
(***************************************************************************)
Lines == splitlines(transcript_data)

IsFinalResponse(l) == SMTP_RESPONSE_PATTERN(l) # None
IsContinuation(l) ==
    ~IsFinalResponse(l) /\ SMTP_MULTILINE_RESPONSE_PATTERN(l) # None
IsCommand(l) ==
    /\ ~IsFinalResponse(l)
    /\ SMTP_MULTILINE_RESPONSE_PATTERN(l) = None
    /\ SMTP_COMMAND_PATTERN(l) # None
IsMalformed(l) ==
    /\ SMTP_RESPONSE_PATTERN(l) = None
    /\ SMTP_MULTILINE_RESPONSE_PATTERN(l) = None
    /\ SMTP_COMMAND_PATTERN(l) = None

WellFormed == \A k \in 1..Len(Lines) : ~IsMalformed(Lines[k])

Max(S) == CHOOSE x \in S : \A y \in S : y <= x
Min(S) == CHOOSE x \in S : \A y \in S : x <= y

\* the positions of the final response lines among the first n lines
FinalPositions(n) == {k \in 1..n : k <= Len(Lines) /\ IsFinalResponse(Lines[k])}

\* the position of the e-th final response line, and of the one before it
FinalPos(e) ==
    CHOOSE k \in FinalPositions(Len(Lines)) : Cardinality(FinalPositions(k)) = e
PrevFinalPos(e) == IF e = 1 THEN 0 ELSE FinalPos(e - 1)

Returned == pc = "done"
ReturnedExchanges == Get(result)[1]
ReturnedExtra == Get(result)[2]

NoErrorFields(extra) ==
    /\ extra.error_code = None
    /\ extra.error_message = None
    /\ extra.error_type = None

ErrorCoded(exchange) ==
    /\ exchange.response # None
    /\ \/ EnhancedClassIsError(Get(exchange.response))
       \/ StatusCodeIsError(Get(exchange.response))

----------------------------------------------------------------------------
(* C1: on a transcript whose lines all have a recognized shape, the number *)
(* of exchanges equals the number of final response lines: while the lines *)
(* are processed the list holds one exchange per final response line       *)
(* processed so far, and the returned list one per final response line.    *)
C1_OneExchangePerFinalResponse ==
    /\ pc = "for" =>
           Len(smtp_exchange_list) = Cardinality(FinalPositions(line_idx - 1))
    /\ (Returned /\ WellFormed) =>
           Len(ReturnedExchanges) = Cardinality(FinalPositions(Len(Lines)))

C1_Witness ==
    /\ Returned
    /\ Len(ReturnedExchanges) = 1
    /\ Len(Lines) = 3
    /\ \E k \in 1..Len(Lines) : IsContinuation(Lines[k])
    /\ \E k \in 1..Len(Lines) : IsCommand(Lines[k])

(* C2: the request of every exchange is the last command line between the  *)
(* previous final response line (or the start) and the exchange's own      *)
(* final response line, absent when there is none; the pending request is  *)
(* absent right after a final response line has been processed.            *)
ExpectedRequest(e) ==
    LET cmds == {k \in (PrevFinalPos(e) + 1)..(FinalPos(e) - 1) : IsCommand(Lines[k])}
        m == Get(SMTP_COMMAND_PATTERN(Lines[Max(cmds)]))
    IN  IF cmds = {} THEN None
        ELSE Some([command |-> upper(m.command), arguments_string |-> m.arguments])

C2_RequestIsLastCommandOfInterval ==
    /\ Returned =>
           \A e \in 1..Len(ReturnedExchanges) :
               ReturnedExchanges[e].request = ExpectedRequest(e)
    /\ (pc = "for" /\ line_idx > 1 /\ IsFinalResponse(Lines[line_idx - 1])) =>
           smtp_request = None

C2_Witness ==
    /\ Returned
    /\ Len(ReturnedExchanges) = 2
    /\ ReturnedExchanges[1].request # None
    /\ ReturnedExchanges[2].request = None

(* C3: the lines of every response are the texts of the continuation lines *)
(* between the previous final response line (or the start) and its own     *)
(* final response line, in transcript order, followed by the text of the   *)
(* final response line.                                                    *)
ExpectedLines(e) ==
    LET conts == SelectSeq(SubSeq(Lines, PrevFinalPos(e) + 1, FinalPos(e) - 1),
                           IsContinuation)
    IN  [k \in 1..Len(conts) |-> Get(SMTP_MULTILINE_RESPONSE_PATTERN(conts[k])).text]
        \o <<Get(SMTP_RESPONSE_PATTERN(Lines[FinalPos(e)])).text>>

C3_LinesAreContinuationsThenFinal ==
    Returned =>
        \A e \in 1..Len(ReturnedExchanges) :
            Get(ReturnedExchanges[e].response).lines = ExpectedLines(e)

C3_Witness ==
    /\ Returned
    /\ Len(ReturnedExchanges) = 2
    /\ Len(Get(ReturnedExchanges[1].response).lines) = 2
    /\ Len(Get(ReturnedExchanges[2].response).lines) = 1

(* C4 (as stated): with no queue id, only the last exchange is inspected;  *)
(* when its response is not an error, no error field is set, whatever the  *)
(* earlier exchanges hold.                                                 *)
C4_OnlyLastExchangeInspected ==
    (/\ Returned
     /\ ReturnedExtra.queue_id = None
     /\ ReturnedExchanges # <<>>
     /\ ~ErrorCoded(ReturnedExchanges[Len(ReturnedExchanges)])) =>
        NoErrorFields(ReturnedExtra)

(* C4 (amended): with no queue id, the backward scan passes every exchange *)
(* whose response is not an error and stops at the first exchange from the *)
(* end whose response is an error: no exchange after the scan position is  *)
(* error-coded, and the error fields stay absent exactly when no exchange  *)
(* at all has an error-coded response.                                     *)
C4_ScanPassesNonErrorResponses ==
    /\ pc = "scan" =>
           \A e \in (scan_idx + 1)..Len(smtp_exchange_list) :
               ~ErrorCoded(smtp_exchange_list[e])
    /\ (Returned /\ ReturnedExtra.queue_id = None) =>
           /\ NoErrorFields(ReturnedExtra) <=>
                  \A e \in 1..Len(ReturnedExchanges) : ~ErrorCoded(ReturnedExchanges[e])
           /\ ReturnedExtra.error_code # None =>
                  /\ scan_idx >= 1
                  /\ ErrorCoded(ReturnedExchanges[scan_idx])
                  /\ \A e \in (scan_idx + 1)..Len(ReturnedExchanges) :
                         ~ErrorCoded(ReturnedExchanges[e])

C4_Witness ==
    /\ Returned
    /\ ReturnedExtra.queue_id = None
    /\ Len(ReturnedExchanges) >= 2
    /\ ~ErrorCoded(ReturnedExchanges[Len(ReturnedExchanges)])
    /\ ReturnedExtra.error_code # None
    /\ scan_idx < Len(ReturnedExchanges)

(* C5: with no queue id, a last exchange whose enhanced class is 4 or 5    *)
(* gives error_code the enhanced code as written, error_message the lines  *)
(* of the response joined by single spaces and error_type the fixed text;  *)
(* otherwise a status code starting with 4 or 5 gives error_code the       *)
(* status code, with the same message and type.                            *)
\* msg is strs[1] " " strs[2] " " ... strs[n], stated position by position
IsSpaceJoined(msg, strs) ==
    LET start(k) == IF k = 1 THEN 1
                    ELSE Len(join(<<>>, SubSeq(strs, 1, k - 1))) + k
    IN  /\ Len(msg) = Len(join(<<>>, strs)) + Len(strs) - 1
        /\ \A k \in 1..Len(strs) :
               /\ SubSeq(msg, start(k), start(k) + Len(strs[k]) - 1) = strs[k]
               /\ k > 1 => msg[start(k) - 1] = " "

C5_ErrorFieldsOfLastExchange ==
    (/\ Returned
     /\ ReturnedExtra.queue_id = None
     /\ ReturnedExchanges # <<>>) =>
        LET response == Get(ReturnedExchanges[Len(ReturnedExchanges)].response)
            enhanced == response.enhanced_status_code
            classIsError == /\ enhanced # None
                            /\ Get(enhanced).class_ \in {Some(<<"4">>), Some(<<"5">>)}
            statusIsError == response.status_code[1] \in {"4", "5"}
        IN  /\ classIsError =>
                   ReturnedExtra.error_code = Some(Get(enhanced).original)
            /\ (~classIsError /\ statusIsError) =>
                   ReturnedExtra.error_code = Some(response.status_code)
            /\ (classIsError \/ statusIsError) =>
                   /\ ReturnedExtra.error_message # None
                   /\ IsSpaceJoined(Get(ReturnedExtra.error_message), response.lines)
                   /\ ReturnedExtra.error_type = Some(ErrorType)

C5_Witness ==
    /\ Returned
    /\ ReturnedExchanges # <<>>
    /\ LET response == Get(ReturnedExchanges[Len(ReturnedExchanges)].response)
       IN  /\ EnhancedClassIsError(response)
           /\ StatusCodeIsError(response)
           /\ Len(response.lines) >= 2
           /\ ReturnedExtra.error_code = Some(Get(response.enhanced_status_code).original)

(* C6: the returned queue_id is the id of the last final response line     *)
(* that has the queue-acceptance shape, and is absent when no final        *)
(* response line has it.                                                   *)
QueuedPositions ==
    {k \in FinalPositions(Len(Lines)) : SMTP_QUEUED_AS_PATTERN(Lines[k]) # None}

C6_QueueIdOfLastAcceptance ==
    Returned =>
        ReturnedExtra.queue_id =
            IF QueuedPositions = {} THEN None
            ELSE Some(Get(SMTP_QUEUED_AS_PATTERN(Lines[Max(QueuedPositions)])).queue_id)

C6_Witness ==
    /\ Returned
    /\ Cardinality(QueuedPositions) >= 2
    /\ Get(SMTP_QUEUED_AS_PATTERN(Lines[Min(QueuedPositions)])).queue_id
           # Get(ReturnedExtra.queue_id)

(* C7: whenever queue_id is present the three error fields are absent, in  *)
(* every state of the call and in its result.                              *)
C7_QueueIdExcludesErrorFields ==
    /\ extra_exchange_data.queue_id # None => NoErrorFields(extra_exchange_data)
    /\ (Returned /\ ReturnedExtra.queue_id # None) => NoErrorFields(ReturnedExtra)

C7_Witness ==
    /\ Returned
    /\ ReturnedExtra.queue_id # None
    /\ Max(QueuedPositions) < Len(Lines)
    /\ ErrorCoded(ReturnedExchanges[Len(ReturnedExchanges)])

(* C8: the call raises exactly when some line has none of the three        *)
(* shapes; the error carries the first such line, and nothing is returned. *)
MalformedPositions == {k \in 1..Len(Lines) : IsMalformed(Lines[k])}

C8_RaisesAtFirstMalformedLine ==
    /\ Returned => MalformedPositions = {} /\ raised = None
    /\ pc = "raised" =>
           /\ MalformedPositions # {}
           /\ line_idx = Min(MalformedPositions)
           /\ raised = Some(MalformedPrefix \o Lines[Min(MalformedPositions)])
           /\ result = None
    /\ raised # None => pc = "raised"

C8_Witness ==
    /\ pc = "raised"
    /\ Cardinality(MalformedPositions) = 2
    /\ Min(MalformedPositions) = 2
    /\ smtp_exchange_list # <<>>

(* C9: a transcript of zero lines is never rejected and returns the empty  *)
(* exchange sequence with the four fields of the extra data absent.        *)
\* the number of lines of s, counted from its line breaks
NumLines(s) ==
    IF s = <<>> THEN 0
    ELSE Cardinality({p \in 1..Len(s) : s[p] = NL})
         + (IF s[Len(s)] = NL THEN 0 ELSE 1)

C9_EmptyTranscript ==
    NumLines(transcript_data) = 0 =>
        /\ pc \in {"start", "done"}
        /\ raised = None
        /\ Returned =>
               /\ ReturnedExchanges = <<>>
               /\ ReturnedExtra = [queue_id |-> None, error_message |-> None,
                                   error_code |-> None, error_type |-> None]

C9_Witness == Returned /\ transcript_data = <<>> /\ result # None

(* C10: a transcript made only of command and continuation lines is not    *)
(* rejected and returns the empty exchange sequence with the four fields   *)
(* of the extra data absent.                                               *)
OnlyCommandsAndContinuations ==
    \A k \in 1..Len(Lines) : IsCommand(Lines[k]) \/ IsContinuation(Lines[k])

C10_NoFinalResponseNoExchange ==
    OnlyCommandsAndContinuations =>
        /\ pc # "raised"
        /\ smtp_exchange_list = <<>>
        /\ Returned =>
               /\ ReturnedExchanges = <<>>
               /\ ReturnedExtra.queue_id = None
               /\ NoErrorFields(ReturnedExtra)

C10_Witness ==
    /\ Returned
    /\ OnlyCommandsAndContinuations
    /\ \E k \in 1..Len(Lines) : IsCommand(Lines[k])
    /\ \E k \in 1..Len(Lines) : IsContinuation(Lines[k])
    /\ IsContinuation(Lines[Len(Lines)])

(* C12: a command line overwrites a pending request that no final response *)
(* line has consumed: the pending request is always that of the last       *)
(* command line since the last final response line, two command lines in a *)
(* row never make the call fail, and of several command lines before a     *)
(* final response line only the last one is the request of an exchange.    *)
RequestOf(l) ==
    [command |-> upper(Get(SMTP_COMMAND_PATTERN(l)).command),
     arguments_string |-> Get(SMTP_COMMAND_PATTERN(l)).arguments]

\* the command lines after the last final response line of the first n lines
UnconsumedCommands(n) ==
    {k \in 1..n : /\ IsCommand(Lines[k])
                  /\ \A m \in k..n : ~IsFinalResponse(Lines[m])}

\* the command lines between the final response lines e - 1 and e
CommandsOfExchange(e) ==
    {k \in (PrevFinalPos(e) + 1)..(FinalPos(e) - 1) : IsCommand(Lines[k])}

C12_CommandOverwritesPendingRequest ==
    /\ pc = "for" =>
           smtp_request =
               IF UnconsumedCommands(line_idx - 1) = {} THEN None
               ELSE Some(RequestOf(Lines[Max(UnconsumedCommands(line_idx - 1))]))
    /\ pc = "raised" => ~IsCommand(Lines[line_idx])
    /\ Returned =>
           \A e \in 1..Len(ReturnedExchanges) :
               \A k \in CommandsOfExchange(e) :
                   /\ ReturnedExchanges[e].request # None
                   /\ RequestOf(Lines[k]) # RequestOf(Lines[Max(CommandsOfExchange(e))])
                          => \A f \in 1..Len(ReturnedExchanges) :
                                 ReturnedExchanges[f].request # Some(RequestOf(Lines[k]))

C12_Witness ==
    /\ Returned
    /\ Len(ReturnedExchanges) = 1
    /\ Cardinality(CommandsOfExchange(1)) = 2
    /\ RequestOf(Lines[1]) # RequestOf(Lines[2])
    /\ ReturnedExchanges[1].request = Some(RequestOf(Lines[2]))

(* C13: a continuation line appends its text to the buffer of lines and    *)
(* leaves the pending request, the exchanges and the queue id as they are; *)
(* a command line replaces the pending request and leaves the buffer, the  *)
(* exchanges and the queue id as they are.                                 *)
LineProcessed == pc = "for" /\ pc' = "for" /\ line_idx' = line_idx + 1

C13_FrameOfContinuationAndCommand ==
    [][/\ (LineProcessed /\ IsContinuation(Lines[line_idx])) =>
              /\ response_lines' =
                     Append(response_lines,
                            Get(SMTP_MULTILINE_RESPONSE_PATTERN(Lines[line_idx])).text)
              /\ smtp_request' = smtp_request
              /\ smtp_exchange_list' = smtp_exchange_list
              /\ extra_exchange_data'.queue_id = extra_exchange_data.queue_id
       /\ (LineProcessed /\ IsCommand(Lines[line_idx])) =>
              /\ smtp_request' = Some(RequestOf(Lines[line_idx]))
              /\ response_lines' = response_lines
              /\ smtp_exchange_list' = smtp_exchange_list
              /\ extra_exchange_data'.queue_id = extra_exchange_data.queue_id]_vars

\* a command line has just been processed and the text of an earlier
\* continuation line is still buffered, after an exchange and a queue id
C13_Witness ==
    /\ pc = "for"
    /\ line_idx = 4
    /\ IsCommand(Lines[3])
    /\ IsContinuation(Lines[2])
    /\ response_lines # <<>>
    /\ smtp_request # None
    /\ smtp_exchange_list # <<>>
    /\ extra_exchange_data.queue_id # None

(* C14: the status code and the enhanced status code of every response are *)
(* those written on its final response line, whatever codes the            *)
(* continuation lines before it carry; the enhanced status code is absent  *)
(* exactly when the final response line carries none.                      *)
ContinuationsOfExchange(e) ==
    {k \in (PrevFinalPos(e) + 1)..(FinalPos(e) - 1) : IsContinuation(Lines[k])}

C14_CodesOfFinalLineOnly ==
    Returned =>
        \A e \in 1..Len(ReturnedExchanges) :
            LET final == Lines[FinalPos(e)]
                response == Get(ReturnedExchanges[e].response)
            IN  /\ response.status_code = SubSeq(final, 1, 3)
                /\ response.enhanced_status_code = None
                       <=> ~ResponseWithEnhanced(final)
                /\ ResponseWithEnhanced(final) =>
                       Get(response.enhanced_status_code).original = SubSeq(final, 5, 9)

C14_Witness ==
    /\ Returned
    /\ \E e \in 1..Len(ReturnedExchanges) :
           \E k \in ContinuationsOfExchange(e) :
               LET cont == Get(SMTP_MULTILINE_RESPONSE_PATTERN(Lines[k]))
                   response == Get(ReturnedExchanges[e].response)
               IN  /\ cont.status_code # response.status_code
                   /\ cont.enhanced_status_code # None
                   /\ response.enhanced_status_code = None

(* C15: a final response line that carries an enhanced status code c.s.d   *)
(* gives a response whose enhanced status code has original "c.s.d", class *)
(* c, subject s and detail d; a component without an entry in its lookup   *)
(* table has its text absent, the other fields are set all the same, and   *)
(* the call returns.                                                       *)
C15_EnhancedStatusCodeDecomposed ==
    Returned =>
        \A e \in 1..Len(ReturnedExchanges) :
            LET final == Lines[FinalPos(e)]
                enhanced == Get(Get(ReturnedExchanges[e].response).enhanced_status_code)
            IN  ResponseWithEnhanced(final) =>
                    /\ enhanced.original =
                           <<final[5], ".", final[7], ".", final[9]>>
                    /\ enhanced.class_ = Some(<<final[5]>>)
                    /\ enhanced.subject = Some(<<final[7]>>)
                    /\ enhanced.detail = Some(<<final[9]>>)

\* the line "451 2.1.5 t": class 2, subject 1, detail 5, no text for 1.5
C15_Witness ==
    /\ Returned
    /\ \E e \in 1..Len(ReturnedExchanges) :
           LET enhanced == Get(ReturnedExchanges[e].response).enhanced_status_code
           IN  /\ enhanced # None
               /\ Get(enhanced).class_ = Some(<<"2">>)
               /\ Get(enhanced).subject = Some(<<"1">>)
               /\ Get(enhanced).detail = Some(<<"5">>)
               /\ Get(enhanced).detail_text = None
               /\ Get(enhanced).subject_text # None

(* C16: every exchange has a response, the lines of the response are not   *)
(* empty, and no line of a response is the empty text.                     *)
ResponseHasLines(exchange) ==
    /\ exchange.response # None
    /\ Get(exchange.response).lines # <<>>
    /\ \A k \in 1..Len(Get(exchange.response).lines) :
           Len(Get(exchange.response).lines[k]) >= 1

C16_ResponsesHaveNonEmptyLines ==
    /\ \A e \in 1..Len(smtp_exchange_list) : ResponseHasLines(smtp_exchange_list[e])
    /\ Returned =>
           \A e \in 1..Len(ReturnedExchanges) : ResponseHasLines(ReturnedExchanges[e])

C16_Witness ==
    /\ Returned
    /\ Len(ReturnedExchanges) = 2
    /\ Len(Get(ReturnedExchanges[2].response).lines) = 2
    /\ ReturnedExchanges[1].request = None

(* C18: the exchange sequence only grows at its end: no step of the call   *)
(* removes, moves or changes an exchange that is already in the sequence,  *)
(* and the returned sequence is the sequence as it was built.              *)
C18_ExchangesAppendOnly ==
    [][/\ Len(smtp_exchange_list') >= Len(smtp_exchange_list)
       /\ \A e \in 1..Len(smtp_exchange_list) :
              smtp_exchange_list'[e] = smtp_exchange_list[e]
       /\ pc' = "done" /\ Len(transcript_data_lines') > 0 =>
              Get(result')[1] = smtp_exchange_list]_vars

\* after an exchange was appended, a continuation line and then a final
\* response line have been processed
C18_Witness ==
    /\ pc = "for"
    /\ line_idx = 4
    /\ IsFinalResponse(Lines[1])
    /\ IsContinuation(Lines[2])
    /\ IsFinalResponse(Lines[3])
    /\ Len(smtp_exchange_list) = 2
    /\ Len(Get(smtp_exchange_list[1].response).lines) = 1

(* C19: the three error fields are all present or all absent; when they    *)
(* are present, error_type is the fixed text and error_message is the      *)
(* lines of the selected response joined by spaces, which is not empty.    *)
C19_ErrorFieldsAllOrNone ==
    /\ \/ NoErrorFields(extra_exchange_data)
       \/ /\ extra_exchange_data.error_code # None
          /\ extra_exchange_data.error_message # None
          /\ extra_exchange_data.error_type = Some(ErrorType)
          /\ Len(Get(extra_exchange_data.error_message)) >= 1
          /\ scan_idx \in 1..Len(smtp_exchange_list)
          /\ IsSpaceJoined(Get(extra_exchange_data.error_message),
                           Get(smtp_exchange_list[scan_idx].response).lines)
    /\ Returned => ReturnedExtra = extra_exchange_data

C19_Witness ==
    /\ Returned
    /\ ReturnedExtra.error_code # None
    /\ ReturnedExtra.error_type # None
    /\ Len(Get(ReturnedExtra.error_message)) >= 3
    /\ Len(Get(ReturnedExchanges[scan_idx].response).lines) = 2

(* C20: when the error fields are present they come from the last exchange *)
(* of the transcript whose response is error-coded: error_code is its      *)
(* enhanced status code when the class of that code is 4 or 5, else its    *)
(* status code, and error_message is made of its lines.                    *)
ErrorCodeOf(exchange) ==
    LET response == Get(exchange.response)
    IN  IF EnhancedClassIsError(response)
        THEN Get(response.enhanced_status_code).original
        ELSE response.status_code

ErrorCodedExchanges ==
    {e \in 1..Len(ReturnedExchanges) : ErrorCoded(ReturnedExchanges[e])}

C20_ErrorFieldsOfLastErrorCoded ==
    (Returned /\ ~NoErrorFields(ReturnedExtra)) =>
        /\ ErrorCodedExchanges # {}
        /\ ReturnedExtra.error_code =
               Some(ErrorCodeOf(ReturnedExchanges[Max(ErrorCodedExchanges)]))
        /\ ReturnedExtra.error_message =
               Some(join(<<" ">>,
                         Get(ReturnedExchanges[Max(ErrorCodedExchanges)].response).lines))

\* two error-coded exchanges with different codes, the second is selected
C20_Witness ==
    /\ Returned
    /\ Cardinality(ErrorCodedExchanges) = 2
    /\ ErrorCodeOf(ReturnedExchanges[Min(ErrorCodedExchanges)])
           # ErrorCodeOf(ReturnedExchanges[Max(ErrorCodedExchanges)])
    /\ ReturnedExtra.error_code =
           Some(ErrorCodeOf(ReturnedExchanges[Max(ErrorCodedExchanges)]))

(* C11: a call on a transcript gives the outcome (the returned pair, or    *)
(* the error raised) of the first call on that transcript, whatever calls  *)
(* were made in between: nothing of an earlier call reaches a later one.   *)
C11_SameTranscriptSameOutcome ==
    (/\ Finished
     /\ reference # None
     /\ transcript_data = calls[1]) =>
        Outcome = Get(reference)

\* the third call repeats the first, after a call that recorded a queue id
C11_Witness ==
    /\ Finished
    /\ Len(calls) = 3
    /\ calls[1] = T_Error
    /\ calls[2] = T_Queued
    /\ calls[3] = T_Error
    /\ result # None
    /\ Get(result)[2].error_code # None

(* C17: calls whose steps are interleaved do not interfere: a call on a    *)
(* transcript, running or suspended, finishes with the outcome of the      *)
(* call that ran alone on that transcript.                                 *)
OutcomeAsAlone(context) ==
    (/\ context.pc \in {"done", "raised"}
     /\ reference # None
     /\ context.transcript_data = calls[1]) =>
        <<context.result, context.raised>> = Get(reference)

C17_InterleavedCallsDoNotInterfere ==
    /\ OutcomeAsAlone(Context)
    /\ suspended # None => OutcomeAsAlone(Get(suspended))

\* the second call was suspended by the third, which processed a line and
\* is suspended in its turn; the second call has finished
C17_Witness ==
    /\ Len(calls) = 3
    /\ calls[1] = T_Error
    /\ calls[2] = T_Error
    /\ calls[3] = T_Pending
    /\ transcript_data = calls[2]
    /\ pc = "done"
    /\ Get(result)[2].error_code # None
    /\ suspended # None
    /\ Get(suspended).transcript_data = calls[3]
    /\ Get(suspended).pc = "for"
    /\ Get(suspended).line_idx = 2
    /\ Get(suspended).smtp_request # None

=============================================================================
